---- MODULE Spec2Model ----
(***************************************************************************)
(* Model of the Keccak builtin runner of the Cairo VM                      *)
(* (src/src/vm/runners/builtin_runner/keccak.rs) together with the parts   *)
(* of Memory and MemorySegmentManager it calls.                            *)
(*                                                                         *)
(* Integers are scaled: a u64 is U64Bits wide, the lanes of the Keccak     *)
(* state are U64Bits wide, a state_rep has StateRepLen lanes.              *)
(***************************************************************************)
EXTENDS Integers, Sequences, FiniteSets, TLC

VARIABLES memory, runner, num_segments, segment_used_sizes, current_step, last, vm

vars == <<memory, runner, num_segments, segment_used_sizes, current_step, last, vm>>

(***************************************************************************)
(* Bounds                                                                  *)
(***************************************************************************)
U64Bits == 2
StateRepLen == 2
MaxInstance == 1
MaxMemOff == 1
MaxRatio == 2
MaxInstancesPerComponent == 2
MaxStep == 5
MaxSegments == 2
MaxStackOff == 0
MaxBody == 1
MaxCalls == 2
MaxHintCells == 1

(***************************************************************************)
(* Program constants                                                       *)
(***************************************************************************)
KECCAK_ARRAY_LEN == 25
KECCAK_ROUNDS == 24

RECURSIVE Pow2(_)
Pow2(n) ==
  IF n = 0 THEN 1 ELSE 2 * Pow2(n - 1)

(* bit widths of a lane: the test's 1-bit lanes, and a width above u64 *)
(* standing for the default 200-bit lanes                               *)
SmallBits == 1
BigBits == U64Bits + 1

(***************************************************************************)
(* MaybeRelocatable, Relocatable, Option                                   *)
(***************************************************************************)
None == <<"none">>
Some(v) == <<"some", v>>
Felt(v) == <<"int", v>>
Reloc(s, o) == <<"rel", s, o>>

IsInt(c) == c[1] = "int"
IsRel(c) == c[1] = "rel"

BuiltinSeg == 0
ExecSeg == 1
MaxOff == (MaxInstance + 1) * 2 * StateRepLen - 1
Addr == (0..1) \X (0..MaxOff)

(* Relocatable + usize, Relocatable - usize *)
AddOff(a, n) == <<a[1], a[2] + n>>
SubOff(a, n) == <<a[1], a[2] - n>>

(***************************************************************************)
(* Memory                                                                  *)
(***************************************************************************)
EmptyMemory == [a \in Addr |-> None]

get(mem, a) ==
  IF a \in DOMAIN mem THEN mem[a] ELSE None

get_integer(mem, a) ==
  LET c == get(mem, a)
  IN IF IsInt(c) THEN <<"Ok", c[2]>> ELSE <<"Err", "ExpectedInteger", a>>

get_relocatable(mem, a) ==
  LET c == get(mem, a)
  IN IF IsRel(c) THEN <<"Ok", <<c[2], c[3]>>>> ELSE <<"Err", "ExpectedRelocatable", a>>

(* mutant: an insert overwrites a populated cell *)
insert_Overwrite(mem, a, v) ==
  [mem |-> [mem EXCEPT ![a] = v], res |-> <<"Ok">>]

(* insert: the new memory and the result *)
insert(mem, a, v) ==
  IF mem[a] = None
    THEN [mem |-> [mem EXCEPT ![a] = v], res |-> <<"Ok">>]
    ELSE IF mem[a] = v
      THEN [mem |-> mem, res |-> <<"Ok">>]
      ELSE [mem |-> mem, res |-> <<"Err", "InconsistentMemory", a, mem[a], v>>]

(***************************************************************************)
(* keccak::f1600 on lanes of U64Bits bits                                  *)
(***************************************************************************)
LaneMod == Pow2(U64Bits)

RECURSIVE BitXor(_, _)
BitXor(a, b) ==
  IF a = 0 THEN b
  ELSE IF b = 0 THEN a
  ELSE ((a + b) % 2) + 2 * BitXor(a \div 2, b \div 2)

RECURSIVE BitAnd(_, _)
BitAnd(a, b) ==
  IF a = 0 \/ b = 0 THEN 0
  ELSE ((a % 2) * (b % 2)) + 2 * BitAnd(a \div 2, b \div 2)

BitNot(a) == (LaneMod - 1) - a

Rotl(a, n) ==
  LET k == n % U64Bits
  IN ((a * Pow2(k)) % LaneMod) + (a \div Pow2(U64Bits - k))

(* rotation offsets, RHO[x + 5y + 1] *)
RHO ==
  <<0, 1, 62, 28, 27,
    36, 44, 6, 55, 20,
    3, 10, 43, 25, 39,
    41, 45, 15, 21, 8,
    18, 2, 61, 56, 14>>

(* low byte of the round constants *)
RC ==
  <<1, 130, 138, 0, 139, 1, 129, 9, 138, 136, 9, 10,
    139, 139, 137, 3, 2, 128, 10, 10, 129, 128, 1, 8>>

(* an array of lanes, as a sequence *)
Lanes(f) == f \o <<>>

KeccakRound(A, rc) ==
  LET C == Lanes([x \in 1..5 |->
              BitXor(A[x], BitXor(A[x + 5], BitXor(A[x + 10],
                BitXor(A[x + 15], A[x + 20]))))])
      D == Lanes([x \in 1..5 |->
              BitXor(C[((x + 3) % 5) + 1], Rotl(C[(x % 5) + 1], 1))])
      T == Lanes([i \in 1..25 |-> BitXor(A[i], D[((i - 1) % 5) + 1])])
      (* rho and pi: B[y, 2x+3y] = rot(T[x, y]) *)
      B == Lanes([j \in 1..25 |->
              LET X == (j - 1) % 5
                  Y == (j - 1) \div 5
                  x == (X + 3 * Y) % 5
              IN Rotl(T[x + 5 * X + 1], RHO[x + 5 * X + 1])])
      E == Lanes([j \in 1..25 |->
              LET x == (j - 1) % 5
                  y == (j - 1) \div 5
              IN BitXor(B[j],
                   BitAnd(BitNot(B[((x + 1) % 5) + 5 * y + 1]),
                          B[((x + 2) % 5) + 5 * y + 1]))])
  IN [E EXCEPT ![1] = BitXor(E[1], rc % LaneMod)]

RECURSIVE KeccakRounds(_, _)
KeccakRounds(A, r) ==
  IF r = KECCAK_ROUNDS THEN A
  ELSE LET S == KeccakRound(A, RC[r + 1])
       IN IF Len(S) = KECCAK_ARRAY_LEN THEN KeccakRounds(S, r + 1) ELSE S

f1600(A) == KeccakRounds(A, 0)

(***************************************************************************)
(* left_pad_u64, safe_div_usize, div_ceil                                  *)
(***************************************************************************)
left_pad_u64(v, n_zeros) == [i \in 1..n_zeros |-> 0] \o v

safe_div_usize(x, y) ==
  IF y = 0 THEN <<"Err", "DividedByZero">>
  ELSE IF x % y # 0 THEN <<"Err", "SafeDivFailUsize">>
  ELSE <<"Ok", x \div y>>

div_ceil(a, b) == (a + b - 1) \div b

(***************************************************************************)
(* KeccakInstanceDef and KeccakBuiltinRunner::new                          *)
(***************************************************************************)
KeccakInstanceDef(ratio, state_rep, ipc) ==
  [ratio |-> ratio, state_rep |-> state_rep, instance_per_component |-> ipc]

cells_per_builtin(def) == 2 * Len(def.state_rep)

new(def, included) ==
  [base |-> 0,
   ratio |-> def.ratio,
   n_input_cells |-> Len(def.state_rep),
   cells_per_instance |-> cells_per_builtin(def),
   stop_ptr |-> None,
   verified_addresses |-> {},
   included |-> included,
   instances_per_component |-> def.instance_per_component,
   state_rep |-> def.state_rep]

(***************************************************************************)
(* initialize_segments, initial_stack                                      *)
(***************************************************************************)
(* MemorySegmentManager::add on n segments: the index of the new segment   *)
(* and the new number of segments                                          *)
add(n) == [segment_index |-> n, num_segments |-> n + 1]

(* mutant: base is the number of segments after the call *)
initialize_segments_CountAfter(r, n) ==
  LET a == add(n)
  IN [runner |-> [r EXCEPT !.base = a.num_segments], num_segments |-> a.num_segments]

initialize_segments(r, n) ==
  LET a == add(n)
  IN [runner |-> [r EXCEPT !.base = a.segment_index], num_segments |-> a.num_segments]

initial_stack(r) ==
  IF r.included THEN <<Reloc(r.base, 0)>> ELSE <<>>

(***************************************************************************)
(* deduce_memory_cell                                                      *)
(***************************************************************************)
FitsU64(v) == v < Pow2(U64Bits)

(* the loop over the input cells, from cell i on: the u64 values read, or *)
(* the early return                                                       *)
RECURSIVE ReadInputs(_, _, _, _, _)
ReadInputs(mem, first, n, i, acc) ==
  IF i = n THEN <<"Inputs", acc>>
  ELSE LET c == get(mem, AddOff(first, i))
       IN IF c = None THEN <<"Ok", "None">>
          ELSE IF IsInt(c) /\ FitsU64(c[2])
            THEN ReadInputs(mem, first, n, i + 1, Append(acc, c[2]))
            ELSE <<"Err", "KeccakInputCellsNotU64">>

deduce_index(r, address) == address[2] % r.cells_per_instance

(* mutant: the width of the first lane is checked before the cells are    *)
(* converted to u64                                                        *)
deduce_output_cell_RangeCheckFirst(r, address, mem) ==
  LET index == deduce_index(r, address)
      first_input_addr == SubOff(address, index)
      c == get(mem, first_input_addr)
  IN IF first_input_addr \in r.verified_addresses THEN <<"Ok", "None">>
     ELSE IF Len(r.state_rep) > 0 /\ IsInt(c) /\ c[2] >= Pow2(r.state_rep[1])
       THEN <<"Err", "IntegerBiggerThanPowerOfTwo", first_input_addr,
              r.state_rep[1], c[2]>>
     ELSE
       LET rd == ReadInputs(mem, first_input_addr, r.n_input_cells, 0, <<>>)
       IN IF rd[1] # "Inputs" THEN rd
          ELSE IF Len(r.state_rep) = 0 THEN <<"Ok", "None">>
          ELSE IF Len(rd[2]) > KECCAK_ARRAY_LEN
            THEN <<"Err", "SliceToArrayError">>
          ELSE
            LET out == f1600(left_pad_u64(rd[2], KECCAK_ARRAY_LEN - Len(rd[2])))
                slot == address[2] - 1
            IN IF slot < KECCAK_ARRAY_LEN
                 THEN <<"Ok", "Some", Felt(out[slot + 1])>>
                 ELSE <<"Ok", "None">>

(* lines 80-121: the deduction of an output cell *)
deduce_output_cell(r, address, mem) ==
  LET index == deduce_index(r, address)
      first_input_addr == SubOff(address, index)
  IN IF first_input_addr \in r.verified_addresses THEN <<"Ok", "None">>
     ELSE
       LET rd == ReadInputs(mem, first_input_addr, r.n_input_cells, 0, <<>>)
       IN IF rd[1] # "Inputs" THEN rd
          ELSE IF Len(r.state_rep) = 0 THEN <<"Ok", "None">>
          ELSE
            LET i == 0
                bits == r.state_rep[1]
                val == get_integer(mem, AddOff(first_input_addr, i))
            IN IF val[1] = "Err" THEN val
               ELSE IF val[2] >= Pow2(bits)
                 THEN <<"Err", "IntegerBiggerThanPowerOfTwo",
                        AddOff(first_input_addr, i), bits, val[2]>>
               ELSE IF Len(rd[2]) > KECCAK_ARRAY_LEN
                 THEN <<"Err", "SliceToArrayError">>
               ELSE
                 LET out == f1600(left_pad_u64(rd[2], KECCAK_ARRAY_LEN - Len(rd[2])))
                     slot == address[2] - 1
                 IN IF slot < KECCAK_ARRAY_LEN
                      THEN <<"Ok", "Some", Felt(out[slot + 1])>>
                      ELSE <<"Ok", "None">>

(* mutant: the last input cell is taken for an output cell *)
deduce_memory_cell_LastInputDeduced(r, address, mem) ==
  IF deduce_index(r, address) + 1 < r.n_input_cells
    THEN <<"Ok", "None">>
    ELSE deduce_output_cell(r, address, mem)

deduce_memory_cell(r, address, mem) ==
  IF deduce_index(r, address) < r.n_input_cells
    THEN <<"Ok", "None">>
    ELSE deduce_output_cell(r, address, mem)

(***************************************************************************)
(* MemorySegmentManager: add, get_segment_used_size                        *)
(***************************************************************************)
get_segment_used_size(sizes, index) ==
  IF sizes = None THEN None
  ELSE IF index < Len(sizes[2]) THEN Some(sizes[2][index + 1])
  ELSE None

(***************************************************************************)
(* get_used_cells, get_used_instances, get_used_cells_and_allocated_size   *)
(***************************************************************************)
get_used_cells(r, sizes) ==
  LET s == get_segment_used_size(sizes, r.base)
  IN IF s = None THEN <<"Err", "MissingSegmentUsedSizes">> ELSE <<"Ok", s[2]>>

(* mutant: the number of instances is rounded down *)
get_used_instances_Floor(r, sizes) ==
  LET used_cells == get_used_cells(r, sizes)
  IN IF used_cells[1] = "Err" THEN used_cells
     ELSE <<"Ok", used_cells[2] \div r.cells_per_instance>>

get_used_instances(r, sizes) ==
  LET used_cells == get_used_cells(r, sizes)
  IN IF used_cells[1] = "Err" THEN used_cells
     ELSE <<"Ok", div_ceil(used_cells[2], r.cells_per_instance)>>

(* MemorySegmentManager::get_segment_size, no size having been set by a    *)
(* finalize: the used size                                                 *)
get_segment_size(sizes, index) == get_segment_used_size(sizes, index)

get_memory_accesses(r, sizes) ==
  LET segment_size == get_segment_size(sizes, r.base)
  IN IF segment_size = None THEN <<"Err", "MissingSegmentUsedSizes">>
     ELSE <<"Ok", [i \in 1..segment_size[2] |-> <<r.base, i - 1>>]>>

(* mutant: the quotient is rounded down when ratio does not divide *)
get_allocated_memory_units_Floor(r, step) ==
  IF r.ratio = 0 THEN <<"Err", "ErrorCalculatingMemoryUnits">>
  ELSE <<"Ok", r.cells_per_instance * (step \div r.ratio)>>

get_allocated_memory_units(r, step) ==
  LET value == safe_div_usize(step, r.ratio)
  IN IF value[1] = "Err" THEN <<"Err", "ErrorCalculatingMemoryUnits">>
     ELSE <<"Ok", r.cells_per_instance * value[2]>>

(* mutant: the comparison of used with size is dropped *)
get_used_cells_and_allocated_size_NoBudgetCheck(r, step, sizes) ==
  LET ratio == r.ratio
      min_step == ratio * r.instances_per_component
  IN IF step < min_step THEN <<"Err", "MinStepNotReached", min_step>>
     ELSE
       LET used == get_used_cells(r, sizes)
           q == safe_div_usize(step, ratio)
       IN IF used[1] = "Err" THEN used
          ELSE IF q[1] = "Err"
            THEN <<"Err", "CurrentStepNotDivisibleByBuiltinRatio", step, ratio>>
          ELSE <<"Ok", used[2], r.cells_per_instance * q[2]>>

get_used_cells_and_allocated_size(r, step, sizes) ==
  LET ratio == r.ratio
      min_step == ratio * r.instances_per_component
  IN IF step < min_step THEN <<"Err", "MinStepNotReached", min_step>>
     ELSE
       LET used == get_used_cells(r, sizes)
           q == safe_div_usize(step, ratio)
       IN IF used[1] = "Err" THEN used
          ELSE IF q[1] = "Err"
            THEN <<"Err", "CurrentStepNotDivisibleByBuiltinRatio", step, ratio>>
          ELSE
            LET size == r.cells_per_instance * q[2]
            IN IF used[2] > size
                 THEN <<"Err", "BuiltinCells", used[2], size>>
                 ELSE <<"Ok", used[2], size>>

(***************************************************************************)
(* final_stack: the result and the new stop_ptr                            *)
(***************************************************************************)
FinalErr(r, e) == [res |-> e, stop_ptr |-> r.stop_ptr]

get_memory_segment_addresses(r) == <<r.base, r.stop_ptr>>

(* mutant: stop_ptr is set before the offset is compared with used *)
final_stack_StopPtrBeforeCheck(r, sizes, mem, pointer) ==
  IF r.included THEN
    IF pointer[2] = 0 THEN FinalErr(r, <<"Err", "NoStopPointer">>)
    ELSE
      LET stop_pointer_addr == SubOff(pointer, 1)
          stop_pointer == get_relocatable(mem, stop_pointer_addr)
      IN IF stop_pointer[1] = "Err" THEN FinalErr(r, <<"Err", "NoStopPointer">>)
         ELSE IF r.base # stop_pointer[2][1]
           THEN FinalErr(r, <<"Err", "InvalidStopPointerIndex", stop_pointer[2], r.base>>)
         ELSE
           LET stop_ptr == stop_pointer[2][2]
               num_instances == get_used_instances(r, sizes)
           IN IF num_instances[1] = "Err" THEN FinalErr(r, num_instances)
              ELSE
                LET used == num_instances[2] * r.cells_per_instance
                IN IF stop_ptr # used
                     THEN [res |-> <<"Err", "InvalidStopPointer",
                                     <<r.base, used>>, <<r.base, stop_ptr>>>>,
                           stop_ptr |-> Some(stop_ptr)]
                     ELSE [res |-> <<"Ok", stop_pointer_addr>>,
                           stop_ptr |-> Some(stop_ptr)]
  ELSE [res |-> <<"Ok", pointer>>, stop_ptr |-> Some(r.base)]

(* mutant: the offset of the stop pointer is not compared with used *)
final_stack_NoOffsetCheck(r, sizes, mem, pointer) ==
  IF r.included THEN
    IF pointer[2] = 0 THEN FinalErr(r, <<"Err", "NoStopPointer">>)
    ELSE
      LET stop_pointer_addr == SubOff(pointer, 1)
          stop_pointer == get_relocatable(mem, stop_pointer_addr)
      IN IF stop_pointer[1] = "Err" THEN FinalErr(r, <<"Err", "NoStopPointer">>)
         ELSE IF r.base # stop_pointer[2][1]
           THEN FinalErr(r, <<"Err", "InvalidStopPointerIndex", stop_pointer[2], r.base>>)
         ELSE
           LET stop_ptr == stop_pointer[2][2]
               num_instances == get_used_instances(r, sizes)
           IN IF num_instances[1] = "Err" THEN FinalErr(r, num_instances)
              ELSE
                LET used == num_instances[2] * r.cells_per_instance
                IN [res |-> <<"Ok", stop_pointer_addr>>, stop_ptr |-> Some(stop_ptr)]
  ELSE [res |-> <<"Ok", pointer>>, stop_ptr |-> Some(r.base)]

(* mutant: the segment index of the stop pointer is not compared with base *)
final_stack_NoIndexCheck(r, sizes, mem, pointer) ==
  IF r.included THEN
    IF pointer[2] = 0 THEN FinalErr(r, <<"Err", "NoStopPointer">>)
    ELSE
      LET stop_pointer_addr == SubOff(pointer, 1)
          stop_pointer == get_relocatable(mem, stop_pointer_addr)
      IN IF stop_pointer[1] = "Err" THEN FinalErr(r, <<"Err", "NoStopPointer">>)
         ELSE
           LET stop_ptr == stop_pointer[2][2]
               num_instances == get_used_instances(r, sizes)
           IN IF num_instances[1] = "Err" THEN FinalErr(r, num_instances)
              ELSE
                LET used == num_instances[2] * r.cells_per_instance
                IN IF stop_ptr # used
                     THEN FinalErr(r, <<"Err", "InvalidStopPointer",
                                        <<r.base, used>>, <<r.base, stop_ptr>>>>)
                     ELSE [res |-> <<"Ok", stop_pointer_addr>>,
                           stop_ptr |-> Some(stop_ptr)]
  ELSE [res |-> <<"Ok", pointer>>, stop_ptr |-> Some(r.base)]

(* mutant: a runner that is not included pops a word as well *)
final_stack_AlwaysPops(r, sizes, mem, pointer) ==
  IF TRUE THEN
    IF pointer[2] = 0 THEN FinalErr(r, <<"Err", "NoStopPointer">>)
    ELSE
      LET stop_pointer_addr == SubOff(pointer, 1)
          stop_pointer == get_relocatable(mem, stop_pointer_addr)
      IN IF stop_pointer[1] = "Err" THEN FinalErr(r, <<"Err", "NoStopPointer">>)
         ELSE IF r.base # stop_pointer[2][1]
           THEN FinalErr(r, <<"Err", "InvalidStopPointerIndex", stop_pointer[2], r.base>>)
         ELSE
           LET stop_ptr == stop_pointer[2][2]
               num_instances == get_used_instances(r, sizes)
           IN IF num_instances[1] = "Err" THEN FinalErr(r, num_instances)
              ELSE
                LET used == num_instances[2] * r.cells_per_instance
                IN IF stop_ptr # used
                     THEN FinalErr(r, <<"Err", "InvalidStopPointer",
                                        <<r.base, used>>, <<r.base, stop_ptr>>>>)
                     ELSE [res |-> <<"Ok", stop_pointer_addr>>,
                           stop_ptr |-> Some(stop_ptr)]
  ELSE [res |-> <<"Ok", pointer>>, stop_ptr |-> Some(r.base)]

final_stack(r, sizes, mem, pointer) ==
  IF r.included THEN
    IF pointer[2] = 0 THEN FinalErr(r, <<"Err", "NoStopPointer">>)
    ELSE
      LET stop_pointer_addr == SubOff(pointer, 1)
          stop_pointer == get_relocatable(mem, stop_pointer_addr)
      IN IF stop_pointer[1] = "Err" THEN FinalErr(r, <<"Err", "NoStopPointer">>)
         ELSE IF r.base # stop_pointer[2][1]
           THEN FinalErr(r, <<"Err", "InvalidStopPointerIndex", stop_pointer[2], r.base>>)
         ELSE
           LET stop_ptr == stop_pointer[2][2]
               num_instances == get_used_instances(r, sizes)
           IN IF num_instances[1] = "Err" THEN FinalErr(r, num_instances)
              ELSE
                LET used == num_instances[2] * r.cells_per_instance
                IN IF stop_ptr # used
                     THEN FinalErr(r, <<"Err", "InvalidStopPointer",
                                        <<r.base, used>>, <<r.base, stop_ptr>>>>)
                     ELSE [res |-> <<"Ok", stop_pointer_addr>>,
                           stop_ptr |-> Some(stop_ptr)]
  ELSE [res |-> <<"Ok", pointer>>, stop_ptr |-> Some(r.base)]

(***************************************************************************)
(* Specification of deduce_memory_cell: the runner is built by new, the   *)
(* memory holds one block of input cells, and cells are deduced.          *)
(***************************************************************************)
StateReps ==
  {[i \in 1..StateRepLen |-> SmallBits], [i \in 1..StateRepLen |-> BigBits]}

IntVals == {0, 2, Pow2(U64Bits)}
CellVals == {Felt(v) : v \in IntVals} \cup {Reloc(ExecSeg, 0)}

Instances == 0..MaxInstance

(* the memory whose only populated cells are the input cells of instance k *)
BlockMemory(k, inputs) ==
  [a \in Addr |->
     IF a[1] = BuiltinSeg /\ a[2] \div (2 * StateRepLen) = k
          /\ a[2] % (2 * StateRepLen) < StateRepLen
       THEN inputs[(a[2] % (2 * StateRepLen)) + 1]
       ELSE None]

NoCall == [op |-> "init", addr |-> <<0, 0>>, val |-> None, res |-> <<"Ok">>]

(* no program is loaded *)
NoVM == [status |-> "none"]

InitDeduce ==
  /\ runner \in {new(KeccakInstanceDef(1, s, 1), TRUE) : s \in StateReps}
  /\ memory \in {BlockMemory(k, inp) : k \in Instances,
                   inp \in [1..StateRepLen -> CellVals \cup {None}]}
  /\ num_segments = 0
  /\ segment_used_sizes = None
  /\ current_step = 0
  /\ last = NoCall
  /\ vm = NoVM

DeduceMemoryCell(address) ==
  /\ last' = [op |-> "deduce_memory_cell", addr |-> address, val |-> None,
              res |-> deduce_memory_cell(runner, address, memory)]
  /\ UNCHANGED <<memory, runner, num_segments, segment_used_sizes, current_step, vm>>

(* the tests push a first input address into verified_addresses *)
PushVerifiedAddress(address) ==
  /\ address \notin runner.verified_addresses
  /\ runner' = [runner EXCEPT !.verified_addresses = @ \cup {address}]
  /\ last' = [op |-> "push_verified", addr |-> address, val |-> None,
              res |-> <<"Ok">>]
  /\ UNCHANGED <<memory, num_segments, segment_used_sizes, current_step, vm>>

NextDeduce ==
  \/ \E o \in 0..MaxOff : DeduceMemoryCell(<<BuiltinSeg, o>>)
  \/ \E k \in Instances : PushVerifiedAddress(<<BuiltinSeg, k * 2 * StateRepLen>>)

SpecDeduce == InitDeduce /\ [][NextDeduce]_vars

(***************************************************************************)
(* Specification of Memory: cells are inserted and read.                  *)
(***************************************************************************)
MemAddrs == {a \in Addr : a[2] <= MaxMemOff}
MemVals == {Felt(0), Felt(2), Reloc(ExecSeg, 0)}

InitMem ==
  /\ runner = new(KeccakInstanceDef(1, [i \in 1..StateRepLen |-> BigBits], 1), TRUE)
  /\ memory = EmptyMemory
  /\ num_segments = 0
  /\ segment_used_sizes = None
  /\ current_step = 0
  /\ last = NoCall
  /\ vm = NoVM

Insert(a, v) ==
  LET r == insert(memory, a, v)
  IN /\ memory' = r.mem
     /\ last' = [op |-> "insert", addr |-> a, val |-> v, res |-> r.res]
     /\ UNCHANGED <<runner, num_segments, segment_used_sizes, current_step, vm>>

Get(a) ==
  /\ last' = [op |-> "get", addr |-> a, val |-> None, res |-> get(memory, a)]
  /\ UNCHANGED <<memory, runner, num_segments, segment_used_sizes, current_step, vm>>

NextMem ==
  \/ \E a \in MemAddrs, v \in MemVals : Insert(a, v)
  \/ \E a \in MemAddrs : Get(a)

SpecMem == InitMem /\ [][NextMem]_vars

(***************************************************************************)
(* Claims about Memory                                                     *)
(***************************************************************************)

(* C1: memory is write-once. A populated cell never changes; an insert of *)
(* a different value at a populated address fails with InconsistentMemory *)
(* and leaves the memory unchanged; an insert of the same value succeeds  *)
(* and changes nothing; a read returns the value the cell holds, so two   *)
(* reads of a populated cell return the same value.                       *)
C1_WriteOnce ==
  [][ /\ \A a \in Addr : memory[a] # None => memory'[a] = memory[a]
      /\ last'.op = "insert" =>
           LET a == last'.addr
               v == last'.val
           IN /\ (memory[a] # None /\ memory[a] # v) =>
                   /\ last'.res = <<"Err", "InconsistentMemory", a, memory[a], v>>
                   /\ memory' = memory
              /\ memory[a] = v =>
                   /\ last'.res = <<"Ok">>
                   /\ memory' = memory
      /\ last'.op = "get" => last'.res = memory[last'.addr]
    ]_vars

(* C1 witness: an insert of a different value hit a populated cell *)
C1_Witness ==
  /\ last.op = "insert"
  /\ memory[last.addr] # None
  /\ memory[last.addr] # last.val
  /\ last.res[1] = "Err"

(***************************************************************************)
(* Claims about deduce_memory_cell                                         *)
(***************************************************************************)
IsDeduce == last.op = "deduce_memory_cell"
LastIndex == deduce_index(runner, last.addr)
LastFirst == SubOff(last.addr, LastIndex)
LastInput(i) == get(memory, AddOff(LastFirst, i))
InputIdx == 0..(runner.n_input_cells - 1)
OnOutputCell == IsDeduce /\ LastIndex >= runner.n_input_cells
OnInputCell == IsDeduce /\ LastIndex < runner.n_input_cells
ResIsSome == Len(last.res) = 3 /\ last.res[2] = "Some"
ResIsNone == last.res = <<"Ok", "None">>

(* every input of the block is an integer that fits a u64 *)
InputsPresentU64 ==
  \A i \in InputIdx : IsInt(LastInput(i)) /\ FitsU64(LastInput(i)[2])

(* every input of the block is below 2^state_rep[i] *)
InputsInRange ==
  \A i \in InputIdx : LastInput(i)[2] < Pow2(runner.state_rep[i + 1])

(* C2: for an output cell i of any instance k whose inputs are all present *)
(* and in range, the call returns Some(lane), and the lane depends only on *)
(* the inputs and on i: it is the lane returned for the same inputs and    *)
(* the same i in instance 0.                                               *)
C2_OutputSlotOfEveryInstance ==
  (OnOutputCell /\ LastFirst \notin runner.verified_addresses
     /\ InputsPresentU64 /\ InputsInRange)
  => /\ ResIsSome
     /\ last.res = deduce_memory_cell([runner EXCEPT !.verified_addresses = {}],
                     <<BuiltinSeg, LastIndex>>,
                     BlockMemory(0, [i \in 1..runner.n_input_cells |-> LastInput(i - 1)]))

(* C3: with all inputs present, an input at any position i that is not     *)
(* below 2^state_rep[i] makes the call fail with                           *)
(* IntegerBiggerThanPowerOfTwo naming such a cell, its width and value.    *)
C3_EveryLaneRangeChecked ==
  (OnOutputCell /\ LastFirst \notin runner.verified_addresses
     /\ InputsPresentU64 /\ ~InputsInRange)
  => \E i \in InputIdx :
       /\ LastInput(i)[2] >= Pow2(runner.state_rep[i + 1])
       /\ last.res = <<"Err", "IntegerBiggerThanPowerOfTwo", AddOff(LastFirst, i),
                       runner.state_rep[i + 1], LastInput(i)[2]>>

(* C4: after deduce_memory_cell has returned Some for an output cell, the  *)
(* first input address of the block is in verified_addresses, and the next *)
(* deduce_memory_cell call for an output cell of the block returns None.   *)
C4_Memoizes ==
  [][ (OnOutputCell /\ ResIsSome) =>
        /\ LastFirst \in runner.verified_addresses
        /\ (last'.op = "deduce_memory_cell"
              /\ deduce_index(runner', last'.addr) >= runner'.n_input_cells
              /\ SubOff(last'.addr, deduce_index(runner', last'.addr)) = LastFirst)
           => last'.res = <<"Ok", "None">>
    ]_vars

(* C5: on an output cell the call returns Ok(None) whenever at least one   *)
(* input cell of the instance is empty, whatever the other cells hold.     *)
C5_MissingInputIsNone ==
  (OnOutputCell /\ \E i \in InputIdx : LastInput(i) = None) => ResIsNone

(* C6: for every address whose index within the instance is below          *)
(* n_input_cells the call returns Ok(None), whatever the memory and        *)
(* verified_addresses hold.                                                *)
C6_InputCellNeverDeduced ==
  OnInputCell => ResIsNone

(* C6 witness: the call was made on a populated input cell of a block      *)
(* whose inputs are all present, and returned Ok(None)                     *)
C6_Witness ==
  /\ OnInputCell
  /\ InputsPresentU64
  /\ InputsInRange
  /\ LastFirst \notin runner.verified_addresses
  /\ ResIsNone

(***************************************************************************)
(* Specification of final_stack: segments are added, the segment sizes are *)
(* set, words are written on the execution stack and final_stack is called.*)
(***************************************************************************)
BigRep == [i \in 1..StateRepLen |-> BigBits]
UsedVals == 0..(2 * StateRepLen + 1)
SizeVecs == {<<u>> : u \in UsedVals} \cup {<<0, u>> : u \in UsedVals}
StackAddrs == {<<ExecSeg, o>> : o \in 0..MaxStackOff}
StackVals ==
  {Felt(0)} \cup {Reloc(sg, o) : sg \in 0..1, o \in {0, 2 * StateRepLen}}
Pointers == {<<ExecSeg, o>> : o \in 0..(MaxStackOff + 1)}

InitFinal ==
  /\ runner \in {new(KeccakInstanceDef(1, BigRep, 1), inc) : inc \in BOOLEAN}
  /\ memory = EmptyMemory
  /\ num_segments = 0
  /\ segment_used_sizes = None
  /\ current_step = 0
  /\ last = NoCall
  /\ vm = NoVM

(* MemorySegmentManager::add for a segment of another owner *)
AddSegment ==
  /\ num_segments < MaxSegments
  /\ num_segments' = add(num_segments).num_segments
  /\ last' = [op |-> "add", addr |-> <<num_segments, 0>>, val |-> None, res |-> <<"Ok">>]
  /\ UNCHANGED <<memory, runner, segment_used_sizes, current_step, vm>>

InitializeSegments ==
  /\ num_segments < MaxSegments
  /\ runner' = initialize_segments(runner, num_segments).runner
  /\ num_segments' = initialize_segments(runner, num_segments).num_segments
  /\ last' = [op |-> "initialize_segments", addr |-> <<num_segments, 0>>,
              val |-> None, res |-> <<"Ok">>]
  /\ UNCHANGED <<memory, segment_used_sizes, current_step, vm>>

(* the segment sizes become known *)
SetSegmentUsedSizes(sv) ==
  /\ segment_used_sizes = None
  /\ segment_used_sizes' = Some(sv)
  /\ last' = [op |-> "set_segment_used_sizes", addr |-> <<0, 0>>, val |-> None,
              res |-> <<"Ok">>]
  /\ UNCHANGED <<memory, runner, num_segments, current_step, vm>>

FinalStack(pointer) ==
  LET f == final_stack(runner, segment_used_sizes, memory, pointer)
  IN /\ runner' = [runner EXCEPT !.stop_ptr = f.stop_ptr]
     /\ last' = [op |-> "final_stack", addr |-> pointer, val |-> None, res |-> f.res]
     /\ UNCHANGED <<memory, num_segments, segment_used_sizes, current_step, vm>>

GetUsedCells ==
  /\ last' = [op |-> "get_used_cells", addr |-> <<0, 0>>, val |-> None,
              res |-> get_used_cells(runner, segment_used_sizes)]
  /\ UNCHANGED <<memory, runner, num_segments, segment_used_sizes, current_step, vm>>

GetUsedInstances ==
  /\ last' = [op |-> "get_used_instances", addr |-> <<0, 0>>, val |-> None,
              res |-> get_used_instances(runner, segment_used_sizes)]
  /\ UNCHANGED <<memory, runner, num_segments, segment_used_sizes, current_step, vm>>

GetMemoryAccesses ==
  /\ last' = [op |-> "get_memory_accesses", addr |-> <<0, 0>>, val |-> None,
              res |-> get_memory_accesses(runner, segment_used_sizes)]
  /\ UNCHANGED <<memory, runner, num_segments, segment_used_sizes, current_step, vm>>

InitialStack ==
  /\ last' = [op |-> "initial_stack", addr |-> <<0, 0>>, val |-> None,
              res |-> initial_stack(runner)]
  /\ UNCHANGED <<memory, runner, num_segments, segment_used_sizes, current_step, vm>>

GetMemorySegmentAddresses ==
  /\ last' = [op |-> "get_memory_segment_addresses", addr |-> <<0, 0>>, val |-> None,
              res |-> get_memory_segment_addresses(runner)]
  /\ UNCHANGED <<memory, runner, num_segments, segment_used_sizes, current_step, vm>>

NextFinal ==
  \/ AddSegment
  \/ GetMemorySegmentAddresses
  \/ InitialStack
  \/ GetUsedCells
  \/ GetUsedInstances
  \/ GetMemoryAccesses
  \/ InitializeSegments
  \/ \E sv \in SizeVecs : SetSegmentUsedSizes(sv)
  \/ \E a \in StackAddrs, v \in StackVals : Insert(a, v)
  \/ \E ptr \in Pointers : FinalStack(ptr)

SpecFinal == InitFinal /\ [][NextFinal]_vars

(***************************************************************************)
(* Specification of the cell accounting: the VM steps, the segment sizes   *)
(* are set and get_used_cells_and_allocated_size is called.                *)
(***************************************************************************)
InitCells ==
  /\ runner \in {new(KeccakInstanceDef(ra, BigRep, ipc), TRUE) :
                   ra \in 0..MaxRatio, ipc \in 1..MaxInstancesPerComponent}
  /\ memory = EmptyMemory
  /\ num_segments = 0
  /\ segment_used_sizes = None
  /\ current_step = 0
  /\ last = NoCall
  /\ vm = NoVM

Step ==
  /\ current_step < MaxStep
  /\ current_step' = current_step + 1
  /\ last' = [op |-> "step", addr |-> <<0, 0>>, val |-> None, res |-> <<"Ok">>]
  /\ UNCHANGED <<memory, runner, num_segments, segment_used_sizes, vm>>

GetUsedCellsAndAllocatedSize ==
  /\ last' = [op |-> "get_used_cells_and_allocated_size", addr |-> <<0, 0>>,
              val |-> None,
              res |-> get_used_cells_and_allocated_size(runner, current_step,
                                                        segment_used_sizes)]
  /\ UNCHANGED <<memory, runner, num_segments, segment_used_sizes, current_step, vm>>

GetAllocatedMemoryUnits ==
  /\ last' = [op |-> "get_allocated_memory_units", addr |-> <<0, 0>>, val |-> None,
              res |-> get_allocated_memory_units(runner, current_step)]
  /\ UNCHANGED <<memory, runner, num_segments, segment_used_sizes, current_step, vm>>

NextCells ==
  \/ Step
  \/ \E sv \in SizeVecs : SetSegmentUsedSizes(sv)
  \/ GetUsedCellsAndAllocatedSize
  \/ GetAllocatedMemoryUnits

SpecCells == InitCells /\ [][NextCells]_vars

(***************************************************************************)
(* The step engine on programs of three functions: main calls foo, foo     *)
(* calls bar. A function is a run of pushes ([ap] = imm; ap++), then calls *)
(* each followed by the same run of pushes, then ret.                      *)
(***************************************************************************)
ProgSeg == 0

Pushes(n) == [i \in 1..(2 * n) |-> IF i % 2 = 1 THEN <<"push">> ELSE <<"imm", 5>>]

RECURSIVE Calls(_, _, _)
Calls(c, n, target) ==
  IF c = 0 THEN <<>>
  ELSE <<<<"call">>, <<"imm", target>>>> \o Pushes(n) \o Calls(c - 1, n, target)

FnCode(n, c, target) == Pushes(n) \o Calls(c, n, target) \o <<<<"ret">>>>

FnLen(n, c) == 2 * n + c * (2 + 2 * n) + 1

(* main at offset 0, then foo, then bar *)
Program(nm, cm, nf, cf, nb) ==
  FnCode(nm, cm, FnLen(nm, cm))
    \o FnCode(nf, cf, FnLen(nm, cm) + FnLen(nf, cf))
    \o FnCode(nb, 0, 0)

(* the largest offset ap reaches *)
BarCost == MaxBody
FooCost == MaxBody + MaxCalls * (2 + BarCost + MaxBody)
MainCost == MaxBody + MaxCalls * (2 + FooCost + MaxBody)
MaxExecOff == 3 + MainCost

VMAddr ==
  {<<ExecSeg, o>> : o \in 0..MaxExecOff} \cup {<<2, o>> : o \in 0..MaxHintCells}

TraceEntry(v) == [pc |-> v.pc, ap |-> v.ap, fp |-> v.fp]

instruction_size(op) == IF op = "ret" THEN 1 ELSE 2

(* mutant: a call leaves fp at the old ap *)
update_registers_CallFpIsAp(v, op, dst, res) ==
  [v EXCEPT
     !.pc = IF op = "push" THEN AddOff(v.pc, instruction_size(op)) ELSE res,
     !.ap = IF op = "push" THEN AddOff(v.ap, 1)
            ELSE IF op = "call" THEN AddOff(v.ap, 2) ELSE v.ap,
     !.fp = IF op = "call" THEN v.ap
            ELSE IF op = "ret" THEN dst ELSE v.fp]

(* step 5: pc regular or jump_abs, ap add1 or +2 on call, fp <- ap + 2 on  *)
(* call and fp <- dst on ret                                               *)
update_registers(v, op, dst, res) ==
  [v EXCEPT
     !.pc = IF op = "push" THEN AddOff(v.pc, instruction_size(op)) ELSE res,
     !.ap = IF op = "push" THEN AddOff(v.ap, 1)
            ELSE IF op = "call" THEN AddOff(v.ap, 2) ELSE v.ap,
     !.fp = IF op = "call" THEN AddOff(v.ap, 2)
            ELSE IF op = "ret" THEN dst ELSE v.fp]

Failed(v, mem) == [vm |-> [v EXCEPT !.status = "error"], mem |-> mem]

(* one step: the entry is recorded, the operands are deduced and written   *)
(* back, the registers are updated                                         *)
step(v, mem) ==
  LET op == v.prog[v.pc[2] + 1][1]
      imm == IF op = "ret" THEN 0 ELSE v.prog[v.pc[2] + 2][2]
      v1 == [v EXCEPT !.trace = Append(@, TraceEntry(v)), !.ops = Append(@, op)]
  IN IF op = "push" THEN
       LET w == insert(mem, v.ap, Felt(imm))
       IN IF w.res[1] = "Err" THEN Failed(v1, mem)
          ELSE [vm |-> update_registers(v1, op, v.ap, v.pc), mem |-> w.mem]
     ELSE IF op = "call" THEN
       (* dst = fp at [ap], op0 = pc + size at [ap + 1] *)
       LET ret_pc == AddOff(v.pc, instruction_size(op))
           w1 == insert(mem, v.ap, Reloc(v.fp[1], v.fp[2]))
           w2 == insert(w1.mem, AddOff(v.ap, 1), Reloc(ret_pc[1], ret_pc[2]))
       IN IF w1.res[1] = "Err" \/ w2.res[1] = "Err" THEN Failed(v1, mem)
          ELSE [vm |-> update_registers(v1, op, v.fp, <<ProgSeg, imm>>), mem |-> w2.mem]
     ELSE
       (* ret: dst = [fp - 2], res = op1 = [fp - 1] *)
       IF v.fp[2] < 2 THEN Failed(v1, mem)
       ELSE
         LET dst == get_relocatable(mem, SubOff(v.fp, 2))
             res == get_relocatable(mem, SubOff(v.fp, 1))
         IN IF dst[1] = "Err" \/ res[1] = "Err" THEN Failed(v1, mem)
            ELSE [vm |-> update_registers(v1, op, dst[2], res[2]), mem |-> mem]

(* the initial stack: the builtin's words, the return fp and the end       *)
InitVM ==
  \E nm \in 0..MaxBody, cm \in 0..MaxCalls, nf \in 0..MaxBody, cf \in 0..MaxCalls,
     nb \in 0..MaxBody, inc \in BOOLEAN :
    LET r == initialize_segments(new(KeccakInstanceDef(1, BigRep, 1), inc), 2)
        stack == initial_stack(r.runner) \o <<Reloc(3, 0), Reloc(4, 0)>>
    IN /\ runner = r.runner
       /\ num_segments = r.num_segments + 2
       /\ memory = [a \in VMAddr |->
                      IF a[1] = ExecSeg /\ a[2] < Len(stack)
                        THEN stack[a[2] + 1] ELSE None]
       /\ segment_used_sizes = None
       /\ current_step = 0
       /\ last = NoCall
       /\ vm = [status |-> "running",
                prog |-> Program(nm, cm, nf, cf, nb),
                pc |-> <<ProgSeg, 0>>,
                ap |-> <<ExecSeg, Len(stack)>>,
                fp |-> <<ExecSeg, Len(stack)>>,
                end |-> <<4, 0>>,
                trace |-> <<>>,
                ops |-> <<>>,
                relocation_table |-> <<>>,
                relocated_trace |-> <<>>]

VMStep ==
  /\ vm.status = "running"
  /\ vm.pc # vm.end
  /\ vm' = step(vm, memory).vm
  /\ memory' = step(vm, memory).mem
  /\ current_step' = current_step + 1
  /\ last' = [op |-> "step", addr |-> vm.pc, val |-> None, res |-> <<"Ok">>]
  /\ UNCHANGED <<runner, num_segments, segment_used_sizes>>

(* a hint populates the next cell of the builtin segment *)
HintInsert ==
  LET used == Cardinality({a \in DOMAIN memory : a[1] = runner.base /\ memory[a] # None})
  IN /\ vm.status = "running"
     /\ vm.pc # vm.end
     /\ used < MaxHintCells
     /\ memory' = insert(memory, <<runner.base, used>>, Felt(0)).mem
     /\ last' = [op |-> "hint", addr |-> <<runner.base, used>>, val |-> Felt(0),
                 res |-> <<"Ok">>]
     /\ UNCHANGED <<runner, num_segments, segment_used_sizes, current_step, vm>>

(***************************************************************************)
(* Relocation                                                              *)
(***************************************************************************)
SetMax(S) == CHOOSE x \in S : \A y \in S : y <= x

(* the size of every segment: the program's length, and for the others the *)
(* largest populated offset plus one                                       *)
compute_effective_sizes(mem, prog_len, n) ==
  [k \in 1..n |->
     IF k - 1 = ProgSeg THEN prog_len
     ELSE LET offs == {a[2] : a \in {b \in DOMAIN mem : b[1] = k - 1 /\ mem[b] # None}}
          IN IF offs = {} THEN 0 ELSE SetMax(offs) + 1]

(* mutant: the sizes of the earlier segments are not accumulated *)
relocate_segments_NoAccumulation(sizes) ==
  [k \in 1..Len(sizes) |-> IF k = 1 THEN 1 ELSE 1 + sizes[k - 1]]

RECURSIVE RelocationPrefix(_, _)
RelocationPrefix(sizes, k) ==
  IF k = 1 THEN 1 ELSE RelocationPrefix(sizes, k - 1) + sizes[k - 1]

(* reloc[0] = 1, reloc[k+1] = reloc[k] + size(k) *)
relocate_segments(sizes) ==
  [k \in 1..Len(sizes) |-> RelocationPrefix(sizes, k)]

relocate_value(table, a) == table[a[1] + 1] + a[2]

relocate_trace(table, trace) ==
  [i \in 1..Len(trace) |->
     [pc |-> relocate_value(table, trace[i].pc),
      ap |-> relocate_value(table, trace[i].ap),
      fp |-> relocate_value(table, trace[i].fp)]]

(* CairoRunner::relocate after the run has reached the end *)
Relocate ==
  LET sizes == compute_effective_sizes(memory, Len(vm.prog), num_segments)
      table == relocate_segments(sizes)
  IN /\ vm.status = "running"
     /\ vm.pc = vm.end
     /\ segment_used_sizes' = Some(sizes)
     /\ vm' = [vm EXCEPT !.status = "relocated",
                         !.relocation_table = table,
                         !.relocated_trace = relocate_trace(table, vm.trace)]
     /\ last' = [op |-> "relocate", addr |-> <<0, 0>>, val |-> None, res |-> <<"Ok">>]
     /\ UNCHANGED <<memory, runner, num_segments, current_step>>

NextVM ==
  \/ VMStep
  \/ HintInsert
  \/ Relocate

SpecVM == InitVM /\ [][NextVM]_vars

(***************************************************************************)
(* BuiltinsInstanceDef: the builtins of every layout. An instance          *)
(* definition is the constructor call that makes it.                       *)
(***************************************************************************)
BuiltinsDef(o, p, rc, e, b, eo, k, po) ==
  [output |-> o, pedersen |-> p, range_check |-> rc, ecdsa |-> e,
   bitwise |-> b, ec_op |-> eo, keccak |-> k, poseidon |-> po]

Default(type) == Some(<<type, "default">>)

plain ==
  BuiltinsDef(FALSE, None, None, None, None, None, None, None)

small ==
  BuiltinsDef(TRUE, Default("PedersenInstanceDef"), Default("RangeCheckInstanceDef"),
              Default("EcdsaInstanceDef"), None, None, None, None)

dex ==
  BuiltinsDef(TRUE, Default("PedersenInstanceDef"), Default("RangeCheckInstanceDef"),
              Default("EcdsaInstanceDef"), None, None, None, None)

perpetual_with_bitwise ==
  BuiltinsDef(TRUE, Some(<<"PedersenInstanceDef", 32, 1>>),
              Some(<<"RangeCheckInstanceDef", 16, 8>>),
              Some(<<"EcdsaInstanceDef", 2048>>),
              Some(<<"BitwiseInstanceDef", 64>>),
              Some(<<"EcOpInstanceDef", 1024>>), None, None)

bitwise ==
  BuiltinsDef(TRUE, Some(<<"PedersenInstanceDef", 256, 1>>),
              Default("RangeCheckInstanceDef"),
              Some(<<"EcdsaInstanceDef", 1024>>),
              Some(<<"BitwiseInstanceDef", 8>>), None, None, None)

(* mutant: the recursive layout keeps the ecdsa builtin of the bitwise     *)
(* layout it was copied from                                               *)
recursive_WithEcdsa ==
  BuiltinsDef(TRUE, Some(<<"PedersenInstanceDef", 256, 1>>),
              Default("RangeCheckInstanceDef"),
              Some(<<"EcdsaInstanceDef", 1024>>),
              Some(<<"BitwiseInstanceDef", 16>>), None,
              Some(<<"KeccakInstanceDef", 2048, [i \in 1..8 |-> 200]>>), None)

recursive ==
  BuiltinsDef(TRUE, Some(<<"PedersenInstanceDef", 256, 1>>),
              Default("RangeCheckInstanceDef"), None,
              Some(<<"BitwiseInstanceDef", 16>>), None,
              Some(<<"KeccakInstanceDef", 2048, [i \in 1..8 |-> 200]>>), None)

all ==
  BuiltinsDef(TRUE, Default("PedersenInstanceDef"), Default("RangeCheckInstanceDef"),
              Default("EcdsaInstanceDef"), Default("BitwiseInstanceDef"),
              Default("EcOpInstanceDef"), None, Default("PoseidonInstanceDef"))

LayoutNames ==
  {"plain", "small", "dex", "perpetual_with_bitwise", "bitwise", "recursive", "all"}

builtins_instance_def(name) ==
  CASE name = "plain" -> plain
    [] name = "small" -> small
    [] name = "dex" -> dex
    [] name = "perpetual_with_bitwise" -> perpetual_with_bitwise
    [] name = "bitwise" -> bitwise
    [] name = "recursive" -> recursive
    [] name = "all" -> all

(***************************************************************************)
(* Specification of the layouts: the builtins of a layout are looked up,   *)
(* the Keccak runner of a layout that has one is built, and the VM steps.  *)
(***************************************************************************)
InitLayout ==
  /\ runner = new(KeccakInstanceDef(1, BigRep, 1), TRUE)
  /\ memory = EmptyMemory
  /\ num_segments = 0
  /\ segment_used_sizes = None
  /\ current_step = 0
  /\ last = NoCall
  /\ vm = NoVM

GetBuiltins(name) ==
  /\ last' = [op |-> "builtins_instance_def", addr |-> <<0, 0>>,
              val |-> <<"layout", name>>, res |-> builtins_instance_def(name)]
  /\ UNCHANGED <<memory, runner, num_segments, segment_used_sizes, current_step, vm>>

(* the runner of the layout's Keccak builtin, 16 instances per component *)
NewKeccakRunner(included) ==
  /\ last.op = "builtins_instance_def"
  /\ last.res.keccak # None
  /\ runner' = new(KeccakInstanceDef(last.res.keccak[2][2], last.res.keccak[2][3], 16),
                   included)
  /\ last' = [op |-> "new", addr |-> <<0, 0>>, val |-> last.val, res |-> <<"Ok">>]
  /\ UNCHANGED <<memory, num_segments, segment_used_sizes, current_step, vm>>

NextLayout ==
  \/ \E name \in LayoutNames : GetBuiltins(name)
  \/ \E inc \in BOOLEAN : NewKeccakRunner(inc)
  \/ Step
  \/ GetAllocatedMemoryUnits

SpecLayout == InitLayout /\ [][NextLayout]_vars

(***************************************************************************)
(* Claims about final_stack                                                *)
(***************************************************************************)
IsFinal == last.op = "final_stack"
FinalOk == IsFinal /\ last.res[1] = "Ok"
FinalErrIs(name) == IsFinal /\ last.res[1] = "Err" /\ last.res[2] = name
(* the word under the pointer final_stack was given *)
PoppedCell == get(memory, <<last.addr[1], last.addr[2] - 1>>)
PopsRelocatable == last.addr[2] > 0 /\ IsRel(PoppedCell)
SizesKnown ==
  /\ segment_used_sizes # None
  /\ runner.base < Len(segment_used_sizes[2])
UsedCells == segment_used_sizes[2][runner.base + 1]
(* used_instances * cells_per_instance: the least multiple of              *)
(* cells_per_instance that is at least the used size                       *)
IsUsedSize(n) ==
  /\ n % runner.cells_per_instance = 0
  /\ n >= UsedCells
  /\ n < UsedCells + runner.cells_per_instance

(* C7: final_stack on an included runner succeeds only if the word at      *)
(* ptr-1 is a relocatable of segment base whose offset is                  *)
(* used_instances * cells_per_instance; it then returns ptr-1 and sets     *)
(* stop_ptr to Some(that offset).                                          *)
C7_FinalStackIncluded ==
  (FinalOk /\ runner.included) =>
     /\ PopsRelocatable
     /\ PoppedCell[2] = runner.base
     /\ SizesKnown
     /\ IsUsedSize(PoppedCell[3])
     /\ last.res = <<"Ok", <<last.addr[1], last.addr[2] - 1>>>>
     /\ runner.stop_ptr = Some(PoppedCell[3])

(* C7 witness: final_stack succeeded on an included runner with a used,    *)
(* non-empty segment                                                       *)
C7_Witness ==
  /\ FinalOk
  /\ runner.included
  /\ SizesKnown
  /\ UsedCells > 0
  /\ runner.stop_ptr # Some(0)

(* C8: final_stack on a runner that is not included returns the pointer it *)
(* was given, never fails and sets stop_ptr to Some(base).                 *)
C8_FinalStackNotIncluded ==
  (IsFinal /\ ~runner.included) =>
     /\ last.res = <<"Ok", last.addr>>
     /\ runner.stop_ptr = Some(runner.base)

(* C8 witness: a runner that is not included, with base 1, was given a     *)
(* pointer with nothing to pop while the segment sizes were unknown        *)
C8_Witness ==
  /\ IsFinal
  /\ ~runner.included
  /\ runner.base = 1
  /\ ~PopsRelocatable
  /\ segment_used_sizes = None
  /\ last.res[1] = "Ok"

(* C9: final_stack on an included runner reports, in this order: nothing   *)
(* to pop, an empty cell or an integer at ptr-1 -> NoStopPointer; another  *)
(* segment index than base -> InvalidStopPointerIndex; another offset than *)
(* used_instances * cells_per_instance -> InvalidStopPointer with the      *)
(* expected address (base, used) and the actual address (base, offset).    *)
C9_FinalStackErrors ==
  (IsFinal /\ runner.included) =>
     /\ ~PopsRelocatable => last.res = <<"Err", "NoStopPointer">>
     /\ (PopsRelocatable /\ PoppedCell[2] # runner.base) =>
          last.res = <<"Err", "InvalidStopPointerIndex",
                       <<PoppedCell[2], PoppedCell[3]>>, runner.base>>
     /\ (PopsRelocatable /\ PoppedCell[2] = runner.base /\ SizesKnown
           /\ ~IsUsedSize(PoppedCell[3])) =>
          \E used \in 0..(UsedCells + runner.cells_per_instance) :
            /\ IsUsedSize(used)
            /\ last.res = <<"Err", "InvalidStopPointer",
                            <<runner.base, used>>, <<runner.base, PoppedCell[3]>>>>

(* C9 witness: the stop pointer had both the wrong segment index and the   *)
(* wrong offset, and the index was reported                                *)
C9_Witness ==
  /\ FinalErrIs("InvalidStopPointerIndex")
  /\ runner.included
  /\ SizesKnown
  /\ ~IsUsedSize(PoppedCell[3])

(***************************************************************************)
(* Claims about get_used_cells_and_allocated_size                          *)
(***************************************************************************)
IsCells == last.op = "get_used_cells_and_allocated_size"
Divides(d, n) == d # 0 /\ n % d = 0
MinStep == runner.ratio * runner.instances_per_component
AllocatedSize == runner.cells_per_instance * (current_step \div runner.ratio)

(* C10 as stated: Ok((used, size)) only when used <= size with             *)
(* size = cells_per_instance * (current_step / ratio), ratio dividing      *)
(* current_step and current_step >= ratio * instances_per_component; when  *)
(* used > size the call fails with BuiltinCells, when current_step is      *)
(* below the minimum with MinStepNotReached, when ratio does not divide    *)
(* current_step with CurrentStepNotDivisibleByBuiltinRatio.                *)
C10_Original ==
  (IsCells /\ SizesKnown) =>
     /\ last.res[1] = "Ok" =>
          /\ Divides(runner.ratio, current_step)
          /\ current_step >= MinStep
          /\ last.res = <<"Ok", UsedCells, AllocatedSize>>
          /\ UsedCells <= AllocatedSize
     /\ (runner.ratio # 0 /\ UsedCells > AllocatedSize) =>
          (last.res[1] = "Err" /\ last.res[2] = "BuiltinCells")
     /\ current_step < MinStep =>
          last.res = <<"Err", "MinStepNotReached", MinStep>>
     /\ ~Divides(runner.ratio, current_step) =>
          last.res = <<"Err", "CurrentStepNotDivisibleByBuiltinRatio",
                       current_step, runner.ratio>>

(* C10 amended: the three failures are checked in order. Below the minimum *)
(* step the call fails with MinStepNotReached; otherwise, when ratio does  *)
(* not divide current_step, with CurrentStepNotDivisibleByBuiltinRatio;    *)
(* otherwise, when used > size, with BuiltinCells; and it returns          *)
(* Ok((used, size)) only when none of the three holds.                     *)
C10_Amended ==
  (IsCells /\ SizesKnown) =>
     /\ last.res[1] = "Ok" =>
          /\ Divides(runner.ratio, current_step)
          /\ current_step >= MinStep
          /\ last.res = <<"Ok", UsedCells, AllocatedSize>>
          /\ UsedCells <= AllocatedSize
     /\ current_step < MinStep =>
          last.res = <<"Err", "MinStepNotReached", MinStep>>
     /\ (current_step >= MinStep /\ ~Divides(runner.ratio, current_step)) =>
          last.res = <<"Err", "CurrentStepNotDivisibleByBuiltinRatio",
                       current_step, runner.ratio>>
     /\ (current_step >= MinStep /\ Divides(runner.ratio, current_step)
           /\ UsedCells > AllocatedSize) =>
          last.res = <<"Err", "BuiltinCells", UsedCells, AllocatedSize>>

(* C10 witness: the step was above the minimum, ratio divided it, and the  *)
(* used cells exceeded the allocated size                                  *)
C10_Witness ==
  /\ IsCells
  /\ SizesKnown
  /\ current_step >= MinStep
  /\ Divides(runner.ratio, current_step)
  /\ UsedCells > AllocatedSize
  /\ last.res[2] = "BuiltinCells"

(***************************************************************************)
(* Claims about get_allocated_memory_units                                 *)
(***************************************************************************)
IsUnits == last.op = "get_allocated_memory_units"

(* C11: get_allocated_memory_units returns                                 *)
(* cells_per_instance * (current_step / ratio) for every current_step that *)
(* ratio divides, and fails with ErrorCalculatingMemoryUnits for every     *)
(* current_step that ratio does not divide and when ratio is 0.            *)
C11_AllocatedMemoryUnits ==
  IsUnits =>
     /\ Divides(runner.ratio, current_step) =>
          last.res = <<"Ok", AllocatedSize>>
     /\ ~Divides(runner.ratio, current_step) =>
          last.res = <<"Err", "ErrorCalculatingMemoryUnits">>

(* C11 witness: the call failed at a step that a ratio above 1 does not    *)
(* divide                                                                  *)
C11_Witness ==
  /\ IsUnits
  /\ runner.ratio > 1
  /\ current_step > runner.ratio
  /\ current_step % runner.ratio # 0
  /\ last.res = <<"Err", "ErrorCalculatingMemoryUnits">>

(***************************************************************************)
(* Claims about get_used_cells, get_used_instances, get_memory_accesses    *)
(***************************************************************************)
IsUsedCellsCall == last.op = "get_used_cells"
IsUsedInstancesCall == last.op = "get_used_instances"
IsAccessesCall == last.op = "get_memory_accesses"
MissingSizes == <<"Err", "MissingSegmentUsedSizes">>

(* C12: get_used_cells returns the used size of the builtin's segment and  *)
(* get_used_instances returns ceil(used_cells / cells_per_instance), the   *)
(* least n with n * cells_per_instance >= used_cells; both, and            *)
(* get_memory_accesses, fail with MissingSegmentUsedSizes when called      *)
(* before the segment sizes have been computed.                            *)
C12_UsedCellsAndInstances ==
  /\ IsUsedCellsCall =>
       /\ SizesKnown => last.res = <<"Ok", UsedCells>>
       /\ segment_used_sizes = None => last.res = MissingSizes
  /\ IsUsedInstancesCall =>
       /\ SizesKnown =>
            /\ last.res[1] = "Ok"
            /\ last.res[2] * runner.cells_per_instance >= UsedCells
            /\ (last.res[2] - 1) * runner.cells_per_instance < UsedCells
       /\ segment_used_sizes = None => last.res = MissingSizes
  /\ (IsAccessesCall /\ segment_used_sizes = None) => last.res = MissingSizes

(* C12 witness: get_used_instances was called on a segment whose used size *)
(* is above one instance and not a multiple of cells_per_instance          *)
C12_Witness ==
  /\ IsUsedInstancesCall
  /\ SizesKnown
  /\ UsedCells > runner.cells_per_instance
  /\ UsedCells % runner.cells_per_instance # 0
  /\ last.res = <<"Ok", 2>>

(***************************************************************************)
(* Claims about initialize_segments and initial_stack                      *)
(***************************************************************************)

(* C13: initialize_segments adds one segment and leaves base equal to the  *)
(* number of segments before the call; initial_stack returns [(base, 0)]   *)
(* when the runner is included and the empty list when it is not, and      *)
(* changes no state.                                                       *)
C13_InitializeSegmentsInitialStack ==
  [][ /\ last'.op = "initialize_segments" =>
           /\ runner'.base = num_segments
           /\ num_segments' = num_segments + 1
      /\ last'.op = "initial_stack" =>
           /\ last'.res = IF runner.included THEN <<Reloc(runner.base, 0)>> ELSE <<>>
           /\ UNCHANGED <<memory, runner, num_segments, segment_used_sizes,
                          current_step, vm>>
    ]_vars

(* C13 witness: initial_stack was called on an included runner whose       *)
(* initialize_segments added the second segment                            *)
C13_Witness ==
  /\ last.op = "initial_stack"
  /\ runner.included
  /\ num_segments = 2
  /\ runner.base = 1
  /\ last.res = <<Reloc(1, 0)>>

(***************************************************************************)
(* Claims about the trace                                                  *)
(***************************************************************************)
HasProgram == vm.status # "none"

(* the entry recorded by step k; for the step after the last executed one, *)
(* the registers as they are now                                           *)
EntryAt(k) == IF k <= Len(vm.trace) THEN vm.trace[k] ELSE TraceEntry(vm)

(* the step of the ret matching the call of step i, scanning from step j   *)
(* at nesting d; 0 when it has not been executed                           *)
RECURSIVE MatchingRet(_, _)
MatchingRet(j, d) ==
  IF j > Len(vm.ops) THEN 0
  ELSE IF vm.ops[j] = "call" THEN MatchingRet(j + 1, d + 1)
  ELSE IF vm.ops[j] = "ret"
    THEN IF d = 0 THEN j ELSE MatchingRet(j + 1, d - 1)
  ELSE MatchingRet(j + 1, d)

(* C14: the trace holds one (pc, ap, fp) entry per executed step and its   *)
(* first entry has ap = fp; the entry right after a call step has          *)
(* ap = fp = (ap before the call) + 2, and the entry right after the       *)
(* matching ret has the fp recorded just before the call.                  *)
C14_CallRetBalance ==
  HasProgram =>
    /\ Len(vm.trace) = current_step
    /\ Len(vm.trace) >= 1 => vm.trace[1].ap = vm.trace[1].fp
    /\ \A i \in 1..Len(vm.ops) :
         vm.ops[i] = "call" =>
           /\ EntryAt(i + 1).ap = AddOff(vm.trace[i].ap, 2)
           /\ EntryAt(i + 1).fp = EntryAt(i + 1).ap
           /\ MatchingRet(i + 1, 0) # 0 =>
                EntryAt(MatchingRet(i + 1, 0) + 1).fp = vm.trace[i].fp

(* C14 witness: main called foo after a push, foo called bar, both have    *)
(* returned and main has run on to the end                                 *)
C14_Witness ==
  /\ HasProgram
  /\ vm.pc = vm.end
  /\ Len(vm.ops) >= 6
  /\ vm.ops[1] = "push"
  /\ vm.ops[2] = "call"
  /\ \E i \in 3..Len(vm.ops) :
       /\ vm.ops[i] = "call"
       /\ MatchingRet(i + 1, 0) # 0
       /\ MatchingRet(i + 1, 0) < MatchingRet(3, 0)
       /\ vm.trace[i].fp # vm.trace[2].fp
  /\ MatchingRet(3, 0) < Len(vm.ops)
  /\ vm.trace[MatchingRet(3, 0) + 1].fp = vm.trace[2].fp

(***************************************************************************)
(* Claims about relocation                                                 *)
(***************************************************************************)
IsRelocated == HasProgram /\ vm.status = "relocated"
Sizes == segment_used_sizes[2]
Table == vm.relocation_table
PopulatedAddrs ==
  {a \in (0..(Len(Sizes) - 1)) \X (0..SetMax({Sizes[k] : k \in 1..Len(Sizes)})) :
     a[2] < Sizes[a[1] + 1]}
LexLess(a, b) == a[1] < b[1] \/ (a[1] = b[1] /\ a[2] < b[2])
Image(a) == Table[a[1] + 1] + a[2]

(* C15: the relocation table has reloc[0] = 1 and                          *)
(* reloc[k+1] = reloc[k] + size(k); the map (s, o) -> reloc[s] + o is      *)
(* injective and preserves the lexicographic order on the populated        *)
(* addresses (o < size(s)); every register of the relocated trace is the   *)
(* image of the register of the trace under this map.                      *)
C15_RelocationMonotone ==
  IsRelocated =>
    /\ Len(Table) = Len(Sizes)
    /\ Table[1] = 1
    /\ \A k \in 1..(Len(Sizes) - 1) : Table[k + 1] = Table[k] + Sizes[k]
    /\ \A a \in PopulatedAddrs : \A b \in PopulatedAddrs :
         /\ LexLess(a, b) => Image(a) < Image(b)
         /\ a # b => Image(a) # Image(b)
    /\ Len(vm.relocated_trace) = Len(vm.trace)
    /\ \A i \in 1..Len(vm.trace) :
         /\ vm.relocated_trace[i].pc = Image(vm.trace[i].pc)
         /\ vm.relocated_trace[i].ap = Image(vm.trace[i].ap)
         /\ vm.relocated_trace[i].fp = Image(vm.trace[i].fp)

(* C15 witness: a run with a call was relocated; the program, execution    *)
(* and builtin segments are populated and the last two segments are empty  *)
C15_Witness ==
  /\ IsRelocated
  /\ \E i \in 1..Len(vm.ops) : vm.ops[i] = "call"
  /\ Sizes[3] > 0
  /\ Sizes[4] = 0
  /\ Table[4] = Table[5]
  /\ Table[3] > Table[2]

(***************************************************************************)
(* Claims about the layouts                                                *)
(***************************************************************************)
IsBuiltins == last.op = "builtins_instance_def"
LayoutName == last.val[2]
Optional == {"pedersen", "range_check", "ecdsa", "bitwise", "ec_op", "keccak", "poseidon"}
Has(b) == IF b = "output" THEN last.res.output ELSE last.res[b] # None

(* C16: plain enables no builtin; small, dex, perpetual_with_bitwise,      *)
(* bitwise, recursive and all enable output, pedersen and range_check;     *)
(* ecdsa is enabled in every layout except plain and recursive; bitwise    *)
(* exactly in perpetual_with_bitwise, bitwise, recursive and all; ec_op    *)
(* exactly in perpetual_with_bitwise and all; keccak exactly in recursive. *)
C16_LayoutBuiltins ==
  IsBuiltins =>
    /\ LayoutName = "plain" =>
         (~Has("output") /\ \A b \in Optional \ {"poseidon"} : ~Has(b))
    /\ LayoutName # "plain" =>
         (Has("output") /\ Has("pedersen") /\ Has("range_check"))
    /\ Has("ecdsa") <=> LayoutName \notin {"plain", "recursive"}
    /\ Has("bitwise") <=>
         LayoutName \in {"perpetual_with_bitwise", "bitwise", "recursive", "all"}
    /\ Has("ec_op") <=> LayoutName \in {"perpetual_with_bitwise", "all"}
    /\ Has("keccak") <=> LayoutName = "recursive"

(* C16 witness: the builtins of the recursive layout were looked up        *)
C16_Witness ==
  /\ IsBuiltins
  /\ LayoutName = "recursive"
  /\ Has("keccak")
  /\ ~Has("ecdsa")
  /\ Has("bitwise")

(***************************************************************************)
(* Claims about a failed final_stack                                       *)
(***************************************************************************)
FinalSucceeds == last'.op = "final_stack" /\ last'.res[1] = "Ok"
FinalFails == last'.op = "final_stack" /\ last'.res[1] = "Err"

(* C17: a final_stack call on an included runner that returns an error     *)
(* leaves stop_ptr as it was; as long as no final_stack call has           *)
(* succeeded, stop_ptr stays None and get_memory_segment_addresses         *)
(* returns (base, None).                                                   *)
C17_FailedFinalStackKeepsStopPtr ==
  [][ runner.included =>
        /\ FinalFails => runner'.stop_ptr = runner.stop_ptr
        /\ (runner.stop_ptr = None /\ ~FinalSucceeds) =>
             /\ runner'.stop_ptr = None
             /\ last'.op = "get_memory_segment_addresses" =>
                  last'.res = <<runner.base, None>>
    ]_vars

(* C17 witness: final_stack failed on the offset of a stop pointer of the  *)
(* right segment, and stop_ptr is still None                               *)
C17_Witness ==
  /\ FinalErrIs("InvalidStopPointer")
  /\ runner.included
  /\ PopsRelocatable
  /\ PoppedCell[2] = runner.base
  /\ runner.stop_ptr = None

(***************************************************************************)
(* Claims about the order of the checks of deduce_memory_cell              *)
(***************************************************************************)
InputsAllPresent == \A i \in InputIdx : LastInput(i) # None
InputIsU64(i) == IsInt(LastInput(i)) /\ FitsU64(LastInput(i)[2])
ResIsErr(name) == last.res[1] = "Err" /\ last.res[2] = name

(* C18: for a runner built by new, an output cell whose inputs are all     *)
(* present and one of which is a relocatable or an integer that does not   *)
(* fit a u64 fails with KeccakInputCellsNotU64, whatever state_rep holds;  *)
(* IntegerBiggerThanPowerOfTwo is returned only when state_rep[0] is below *)
(* the width of a u64, and never with the default lanes, which are wider.  *)
C18_U64ConversionFirst ==
  IsDeduce =>
    /\ (OnOutputCell /\ LastFirst \notin runner.verified_addresses
          /\ InputsAllPresent /\ \E i \in InputIdx : ~InputIsU64(i))
       => last.res = <<"Err", "KeccakInputCellsNotU64">>
    /\ ResIsErr("IntegerBiggerThanPowerOfTwo") => runner.state_rep[1] < U64Bits
    /\ runner.state_rep[1] = BigBits => ~ResIsErr("IntegerBiggerThanPowerOfTwo")

(* C18 witness: the first input is an integer too wide for a u64 and for   *)
(* the 1-bit lane of state_rep, the others are present, and the call       *)
(* failed on the conversion                                                *)
C18_Witness ==
  /\ OnOutputCell
  /\ LastFirst \notin runner.verified_addresses
  /\ InputsAllPresent
  /\ IsInt(LastInput(0))
  /\ ~FitsU64(LastInput(0)[2])
  /\ runner.state_rep[1] = SmallBits
  /\ ResIsErr("KeccakInputCellsNotU64")

====
